---- MODULE Spec2Model ----
(***************************************************************************)
(* The TZX tape engine of rustzx-core (zx/tape/tzx.rs) as a state machine. *)
(* The engine (struct Tzx) is the record held in the variable tzx; every   *)
(* method of the TapeImpl implementation is an operator from an engine     *)
(* record to the record after the call together with the returned value,   *)
(* and every public operation is one action that applies the operator.     *)
(***************************************************************************)
EXTENDS Integers, Sequences, FiniteSets, TLC

VARIABLES
    tape,             \* the bytes of the asset (fixed during a behaviour)
    overflow_checks,  \* build profile: TRUE = arithmetic overflow panics
    tzx,              \* the Tzx struct, with the asset's position as pos
    result,           \* what the last public call returned
    last_op,          \* the last public call
    last_arms,        \* arms of the state loop executed by the last process_clocks
    obs,              \* observations accumulated over the run (history)
    env,              \* the host's call budget used so far (history)
    ref               \* reference engine of the two-run specifications

vars == <<tape, overflow_checks, tzx, result, last_op, last_arms, obs, env, ref>>

----------------------------------------------------------------------------
(* Program constants, tzx.rs lines 10-19 and the literals of process_clocks *)

STD_PILOT_LENGTH == 2168
STD_PILOT_PULSES_HEADER == 8063
STD_PILOT_PULSES_DATA == 3223
STD_SYNC1_LENGTH == 667
STD_SYNC2_LENGTH == 735
STD_BIT_ONE_LENGTH == 1710
STD_BIT_ZERO_LENGTH == 855
STD_PAUSE_LENGTH == 3500000
BUFFER_SIZE == 128
HEADER_SIZE == 10
\* milliseconds to T-states, the literal 3_500 of the Pause and Silence arms
MS_TSTATES == 3500
\* usize::MAX, the value an unsigned decrement of 0 wraps to when overflow
\* checks are off; TLC's integers are 32 bits wide, so the largest of them
\* stands for it (only "is not 0 and is larger than any count" is used)
USIZE_MAX == 2147483647

----------------------------------------------------------------------------
(* Option<T> and the TapeState enum                                        *)

None == [some |-> FALSE]
Some(x) == [some |-> TRUE, v |-> x]

St(tag) == [tag |-> tag]
StInit == St("Init")
StStop == St("Stop")
StPlay == St("Play")
StProcess == St("Process")
StSync == St("Sync")
StPause == St("Pause")
StPilot(n) == [tag |-> "Pilot", pulses_left |-> n]
StPureTone(n) == [tag |-> "PureTone", pulses_left |-> n]
StPulseSequence(n) == [tag |-> "PulseSequence", pulses_left |-> n]
StNextByte(d) == [tag |-> "NextByte", is_direct_recording_sample |-> d]
StNextBit(m) == [tag |-> "NextBit", mask |-> m]
StNextDirectRecordingBit(m) == [tag |-> "NextDirectRecordingBit", mask |-> m]
StBitHalf(d, m) == [tag |-> "BitHalf", half_bit_delay |-> d, mask |-> m]
StSilence(l) == [tag |-> "Silence", length |-> l]

TapeTimings_default ==
    [ pilot_length |-> STD_PILOT_LENGTH,
      pilot_pulses_header |-> STD_PILOT_PULSES_HEADER,
      pilot_pulses_data |-> STD_PILOT_PULSES_DATA,
      sync1_length |-> STD_SYNC1_LENGTH,
      sync2_length |-> STD_SYNC2_LENGTH,
      bit_0_length |-> STD_BIT_ZERO_LENGTH,
      bit_1_length |-> STD_BIT_ONE_LENGTH,
      pause_length |-> STD_PAUSE_LENGTH,
      pilot_tone_length |-> None ]

from_asset(is48k) ==
    [ pos |-> 0,
      prev_state |-> StStop,
      state |-> StInit,
      curr_bit |-> FALSE,
      curr_byte |-> 0,
      buffer |-> [i \in 0..(BUFFER_SIZE - 1) |-> 0],
      buffer_offset |-> 0,
      block_bytes_read |-> 0,
      current_block_id |-> None,
      current_block_size |-> None,
      delay |-> 0,
      tape_ended |-> FALSE,
      tape_timings |-> TapeTimings_default,
      used_bits_in_last_byte |-> 8,
      bits_to_process_in_byte |-> 0,
      loop_start_marker |-> 0,
      num_repetitions |-> None,
      is_48k_mode |-> is48k ]

----------------------------------------------------------------------------
(* Small arithmetic                                                        *)

Min(a, b) == IF a < b THEN a ELSE b
Max(a, b) == IF a > b THEN a ELSE b

\* x & mask for a one-bit mask
BitSet(x, mask) == (x \div mask) % 2 = 1

\* u16::from_le_bytes / u32::from_le_bytes of three bytes and a zero
u16_from_le_bytes(b0, b1) == b0 + 256 * b1
u24_from_le_bytes(b0, b1, b2) == b0 + 256 * b1 + 65536 * b2
u32_from_le_bytes(b0, b1, b2, b3) == b0 + 256 * b1 + 65536 * b2 + 16777216 * b3

\* core::str::from_utf8(bytes).is_ok(), bytes a sequence: the well-formed
\* byte sequences of UTF-8 (1 to 4 bytes per scalar value)
RECURSIVE utf8_ok(_)
utf8_ok(s) ==
    LET n  == Len(s)
        c(i) == i <= n /\ s[i] >= 128 /\ s[i] <= 191
        rest(k) == utf8_ok(SubSeq(s, k + 1, n))
    IN IF n = 0 THEN TRUE
       ELSE LET b == s[1] IN
            IF b < 128 THEN rest(1)
            ELSE IF b >= 194 /\ b <= 223 THEN c(2) /\ rest(2)
            ELSE IF b = 224 THEN c(2) /\ s[2] >= 160 /\ c(3) /\ rest(3)
            ELSE IF b = 237 THEN c(2) /\ s[2] <= 159 /\ c(3) /\ rest(3)
            ELSE IF b >= 225 /\ b <= 239 THEN c(2) /\ c(3) /\ rest(3)
            ELSE IF b = 240 THEN c(2) /\ s[2] >= 144 /\ c(3) /\ c(4) /\ rest(4)
            ELSE IF b >= 241 /\ b <= 243 THEN c(2) /\ c(3) /\ c(4) /\ rest(4)
            ELSE IF b = 244 THEN c(2) /\ s[2] <= 143 /\ c(3) /\ c(4) /\ rest(4)
            ELSE FALSE

----------------------------------------------------------------------------
(* The byte source (LoadableAsset + SeekableAsset): read_exact and seek.   *)
(* The asset's position is the field pos of the engine record.             *)

\* bytes left to read at position p
asset_available(p) == IF p >= Len(tape) THEN 0 ELSE Len(tape) - p

\* read_exact of n bytes at p succeeds
read_exact_ok(p, n) == n <= asset_available(p)

\* the position after read_exact of n bytes at p: a failed read has consumed
\* the bytes there were
read_exact_pos(p, n) == p + Min(n, asset_available(p))

\* the i-th byte (from 0) that a read at position p delivers
asset_byte(p, i) == tape[p + i + 1]

\* the bytes read_exact of n bytes at p delivers, as a sequence
asset_bytes(p, n) == [i \in 1..Min(n, asset_available(p)) |-> tape[p + i]]

\* seek(SeekFrom::Start(x)) and seek(SeekFrom::Current(d)): the new position
seek_start(x) == x
seek_current(p, d) == p + d

\* self.asset.read_exact(&mut self.buffer[0..n]): the engine after the read
\* (the bytes there were are copied, the position moves over them)
read_into_buffer(t, n) ==
    LET k == Min(n, asset_available(t.pos)) IN
    [t EXCEPT !.buffer = [i \in 0..(BUFFER_SIZE - 1) |->
                             IF i < k THEN asset_byte(t.pos, i) ELSE t.buffer[i]],
              !.pos = t.pos + k]

----------------------------------------------------------------------------
(* next_block_byte: Result<Option<u8>>. r is "Some", "None", "IoError" or  *)
(* "Panic" (an arithmetic overflow with overflow checks on); b is the byte *)

ByteRet(t, r, b) == [t |-> t, r |-> r, b |-> b]

\* a refill that always asks for a whole buffer
refill_whole_buffer(t, block_size) == BUFFER_SIZE

\* lines 204-211: the refill of the window, for a read position that is
\* past it; bytes_to_read wraps when the subtraction goes below zero
refill_bytes_to_read(t, block_size) ==
    LET x == block_size - t.buffer_offset - BUFFER_SIZE IN
    IF x < 0 THEN BUFFER_SIZE ELSE Min(x, BUFFER_SIZE)

\* lines 213-230: the read of the byte at buffer_read_pos
read_block_byte(t, block_size, buffer_read_pos) ==
    IF t.block_bytes_read >= block_size
    THEN ByteRet([t EXCEPT !.current_block_size = None,
                           !.block_bytes_read = 0], "None", 0)
    ELSE LET n == t.block_bytes_read + 1 IN
         ByteRet([t EXCEPT !.block_bytes_read = n,
                           !.bits_to_process_in_byte =
                               IF n >= block_size THEN t.used_bits_in_last_byte
                                                  ELSE 8],
                 "Some", t.buffer[buffer_read_pos])

next_block_byte(t) ==
    IF t.tape_ended THEN ByteRet(t, "None", 0)
    ELSE IF ~t.current_block_size.some THEN ByteRet(t, "None", 0)
    ELSE LET block_size == t.current_block_size.v
             underflow  == t.block_bytes_read < t.buffer_offset
             buffer_read_pos == t.block_bytes_read - t.buffer_offset
         IN
         IF t.block_bytes_read >= block_size THEN ByteRet(t, "None", 0)
         ELSE IF underflow /\ overflow_checks THEN ByteRet(t, "Panic", 0)
         ELSE IF underflow \/ buffer_read_pos >= BUFFER_SIZE
         THEN LET bytes_to_read == refill_bytes_to_read(t, block_size)
                  x == block_size - t.buffer_offset - BUFFER_SIZE
                  t1 == read_into_buffer(t, bytes_to_read)
              IN IF x < 0 /\ overflow_checks THEN ByteRet(t, "Panic", 0)
                 ELSE IF ~read_exact_ok(t.pos, bytes_to_read)
                 THEN ByteRet(t1, "IoError", 0)
                 ELSE read_block_byte(
                          [t1 EXCEPT !.buffer_offset = t.buffer_offset + BUFFER_SIZE],
                          block_size, 0)
         ELSE read_block_byte(t, block_size, buffer_read_pos)

----------------------------------------------------------------------------
(* next_block: Result<bool>. r is "true", "false", "IoError" (the ? of a   *)
(* payload load or of a seek) or "Panic" (a slice out of range, an unwrap  *)
(* of invalid UTF-8). In the per-block operators t is the engine after the *)
(* ID byte was read (lines 242-250): t.pos is where the block header is.   *)

BlkRet(t, r) == [t |-> t, r |-> r]

\* a failed read_exact of an n byte header: tape_ended = true; return Ok(false)
header_read_failed(t, n) ==
    BlkRet([t EXCEPT !.tape_ended = TRUE, !.pos = read_exact_pos(t.pos, n)], "false")

\* the payload load of the data blocks 0x10, 0x11, 0x14 (lines 271-275):
\* t is the engine after the header, block_size the decoded size
load_payload(t, block_size, id) ==
    LET n  == Min(block_size, BUFFER_SIZE)
        t1 == read_into_buffer(t, n)
    IN IF ~read_exact_ok(t.pos, n) THEN BlkRet(t1, "IoError")
       ELSE BlkRet([t1 EXCEPT !.current_block_id = Some(id),
                              !.current_block_size = Some(block_size)], "true")

\* 0x10, lines 253-276
block_standard_speed_data(t) ==
    LET h(i) == asset_byte(t.pos, i) IN
    IF ~read_exact_ok(t.pos, 4) THEN header_read_failed(t, 4)
    ELSE load_payload(
           [t EXCEPT !.pos = t.pos + 4,
                     !.tape_timings.pilot_length = STD_PILOT_LENGTH,
                     !.tape_timings.sync1_length = STD_SYNC1_LENGTH,
                     !.tape_timings.sync2_length = STD_SYNC2_LENGTH,
                     !.tape_timings.pilot_pulses_header = STD_PILOT_PULSES_HEADER,
                     !.tape_timings.pilot_pulses_data = STD_PILOT_PULSES_DATA,
                     !.tape_timings.bit_0_length = STD_BIT_ZERO_LENGTH,
                     !.tape_timings.bit_1_length = STD_BIT_ONE_LENGTH,
                     !.tape_timings.pause_length = u16_from_le_bytes(h(0), h(1))],
           u16_from_le_bytes(h(2), h(3)), "StandardSpeedData")

\* 0x11, lines 277-308
block_turbo_speed_data(t) ==
    LET h(i) == asset_byte(t.pos, i) IN
    IF ~read_exact_ok(t.pos, 18) THEN header_read_failed(t, 18)
    ELSE load_payload(
           [t EXCEPT !.pos = t.pos + 18,
                     !.tape_timings.pilot_length = u16_from_le_bytes(h(0), h(1)),
                     !.tape_timings.sync1_length = u16_from_le_bytes(h(2), h(3)),
                     !.tape_timings.sync2_length = u16_from_le_bytes(h(4), h(5)),
                     !.tape_timings.bit_0_length = u16_from_le_bytes(h(6), h(7)),
                     !.tape_timings.bit_1_length = u16_from_le_bytes(h(8), h(9)),
                     !.tape_timings.pilot_tone_length =
                         Some(u16_from_le_bytes(h(10), h(11))),
                     !.used_bits_in_last_byte = h(12),
                     !.tape_timings.pause_length = u16_from_le_bytes(h(13), h(14))],
           u24_from_le_bytes(h(15), h(16), h(17)), "TurboSpeedData")

\* 0x12, lines 309-324
block_pure_tone(t) ==
    LET h(i) == asset_byte(t.pos, i) IN
    IF ~read_exact_ok(t.pos, 4) THEN header_read_failed(t, 4)
    ELSE BlkRet([t EXCEPT !.pos = t.pos + 4,
                          !.tape_timings.pilot_length = u16_from_le_bytes(h(0), h(1)),
                          !.tape_timings.pilot_tone_length =
                              Some(u16_from_le_bytes(h(2), h(3))),
                          !.current_block_id = Some("PureTone")], "true")

\* 0x13, lines 325-345
block_pulse_sequence(t) ==
    LET h(i) == asset_byte(t.pos, i)
        block_size == h(0) * 2
        n  == Min(block_size, BUFFER_SIZE)
        t1 == [t EXCEPT !.pos = t.pos + 1,
                        !.tape_timings.pilot_tone_length = Some(h(0))]
        t2 == read_into_buffer(t1, n)
    IN IF ~read_exact_ok(t.pos, 1) THEN header_read_failed(t, 1)
       ELSE IF ~read_exact_ok(t1.pos, n) THEN BlkRet(t2, "IoError")
       ELSE BlkRet([t2 EXCEPT !.current_block_size = Some(block_size),
                              !.current_block_id = Some("PulseSequence")], "true")

\* 0x14, lines 346-371
block_pure_data(t) ==
    LET h(i) == asset_byte(t.pos, i) IN
    IF ~read_exact_ok(t.pos, 10) THEN header_read_failed(t, 10)
    ELSE load_payload(
           [t EXCEPT !.pos = t.pos + 10,
                     !.tape_timings.bit_0_length = u16_from_le_bytes(h(0), h(1)),
                     !.tape_timings.bit_1_length = u16_from_le_bytes(h(2), h(3)),
                     !.tape_timings.pilot_tone_length = None,
                     !.used_bits_in_last_byte = h(4),
                     !.tape_timings.pause_length = u16_from_le_bytes(h(5), h(6))],
           u24_from_le_bytes(h(7), h(8), h(9)), "PureDataBlock")

\* 0x15, lines 372-407
block_direct_recording(t) ==
    LET h(i) == asset_byte(t.pos, i)
        block_size == u24_from_le_bytes(h(5), h(6), h(7))
        n  == Min(block_size, BUFFER_SIZE)
        t1 == [t EXCEPT !.pos = t.pos + 8,
                        !.tape_timings.bit_0_length = u16_from_le_bytes(h(0), h(1)),
                        !.tape_timings.pause_length = u16_from_le_bytes(h(2), h(3)),
                        !.used_bits_in_last_byte = h(4)]
        t2 == read_into_buffer(t1, n)
    IN IF ~read_exact_ok(t.pos, 8) THEN header_read_failed(t, 8)
       ELSE IF ~read_exact_ok(t1.pos, n)
       THEN BlkRet([t2 EXCEPT !.tape_ended = TRUE], "false")
       ELSE BlkRet([t2 EXCEPT !.current_block_id = Some("DirectRecording"),
                              !.current_block_size = Some(block_size)], "true")

\* 0x16 | 0x17 | 0x18 | 0x19 | 0x2b, lines 408-419
block_unsupported(t) ==
    LET h(i) == asset_byte(t.pos, i) IN
    IF ~read_exact_ok(t.pos, 4) THEN header_read_failed(t, 4)
    ELSE BlkRet([t EXCEPT !.pos = seek_current(t.pos + 4,
                                      u32_from_le_bytes(h(0), h(1), h(2), h(3))),
                          !.current_block_id = Some("Unknown")], "true")

\* 0x20, lines 423-442
block_pause_or_silence(t) ==
    LET h(i) == asset_byte(t.pos, i) IN
    IF ~read_exact_ok(t.pos, 2) THEN header_read_failed(t, 2)
    ELSE IF u16_from_le_bytes(h(0), h(1)) = 0
    THEN BlkRet([t EXCEPT !.pos = t.pos + 2, !.delay = 0], "false")
    ELSE BlkRet([t EXCEPT !.pos = t.pos + 2,
                          !.buffer = [t.buffer EXCEPT ![0] = h(0), ![1] = h(1)],
                          !.current_block_id = Some("PauseOrSilence")], "true")

\* the text of 0x21 and 0x30 (lines 450-461, 529-541): the engine after the
\* length byte and the text were read; the slice buffer[0..num_chars] is
\* out of range above BUFFER_SIZE and from_utf8(..).unwrap() panics on text
\* that is not UTF-8
read_text(t, set_size, id) ==
    LET num_chars == asset_byte(t.pos, 0)
        t1 == [t EXCEPT !.pos = t.pos + 1]
        t2 == read_into_buffer(t1, num_chars)
        t3 == IF set_size THEN [t2 EXCEPT !.current_block_size = Some(num_chars)]
                          ELSE t2
    IN IF ~read_exact_ok(t.pos, 1) THEN header_read_failed(t, 1)
       ELSE IF num_chars > BUFFER_SIZE THEN BlkRet(t1, "Panic")
       ELSE IF ~read_exact_ok(t1.pos, num_chars)
       THEN BlkRet([t2 EXCEPT !.tape_ended = TRUE], "false")
       ELSE IF ~utf8_ok(asset_bytes(t1.pos, num_chars)) THEN BlkRet(t3, "Panic")
       ELSE BlkRet([t3 EXCEPT !.current_block_id = Some(id)], "true")

\* 0x21, lines 443-464
block_group_start(t) == read_text(t, FALSE, "GroupStart")

\* 0x30, lines 522-544
block_text_description(t) == read_text(t, TRUE, "TextDescription")

\* 0x22, lines 465-469
block_group_end(t) == BlkRet([t EXCEPT !.current_block_id = Some("GroupEnd")], "true")

\* 0x24, lines 470-480
block_loop_start(t) ==
    LET h(i) == asset_byte(t.pos, i) IN
    IF ~read_exact_ok(t.pos, 2) THEN header_read_failed(t, 2)
    ELSE BlkRet([t EXCEPT !.pos = t.pos + 2,
                          !.num_repetitions = Some(u16_from_le_bytes(h(0), h(1))),
                          !.loop_start_marker = seek_current(t.pos + 2, 0)], "true")

\* 0x25, lines 481-495
block_loop_end(t) ==
    LET t1 == [t EXCEPT !.current_block_id = Some("LoopEnd")] IN
    IF t.num_repetitions.some /\ t.num_repetitions.v > 0
    THEN BlkRet([t1 EXCEPT !.num_repetitions = Some(t.num_repetitions.v - 1),
                           !.pos = seek_start(t.loop_start_marker)], "true")
    ELSE BlkRet([t1 EXCEPT !.num_repetitions = None], "true")

\* 0x28 and 0x32, lines 496-507 and 545-556
block_skip_u16(t) ==
    LET h(i) == asset_byte(t.pos, i) IN
    IF ~read_exact_ok(t.pos, 2) THEN header_read_failed(t, 2)
    ELSE BlkRet([t EXCEPT !.pos = seek_current(t.pos + 2, u16_from_le_bytes(h(0), h(1))),
                          !.current_block_id = Some("Unknown")], "true")

\* 0x2A, lines 508-521
block_stop_if_48k(t) ==
    IF ~read_exact_ok(t.pos, 4) THEN header_read_failed(t, 4)
    ELSE IF t.is_48k_mode THEN BlkRet([t EXCEPT !.pos = t.pos + 4], "false")
    ELSE BlkRet([t EXCEPT !.pos = t.pos + 4,
                          !.current_block_id = Some("StopIf48k")], "true")

\* the match on the block ID, lines 252-563
decode_block(block_id, t) ==
    CASE block_id = 16 -> block_standard_speed_data(t)
      [] block_id = 17 -> block_turbo_speed_data(t)
      [] block_id = 18 -> block_pure_tone(t)
      [] block_id = 19 -> block_pulse_sequence(t)
      [] block_id = 20 -> block_pure_data(t)
      [] block_id = 21 -> block_direct_recording(t)
      [] block_id \in {22, 23, 24, 25, 43} -> block_unsupported(t)
      [] block_id \in {52, 53, 64} -> BlkRet(t, "true")
      [] block_id = 32 -> block_pause_or_silence(t)
      [] block_id = 33 -> block_group_start(t)
      [] block_id = 34 -> block_group_end(t)
      [] block_id = 36 -> block_loop_start(t)
      [] block_id = 37 -> block_loop_end(t)
      [] block_id = 40 -> block_skip_u16(t)
      [] block_id = 42 -> block_stop_if_48k(t)
      [] block_id = 48 -> block_text_description(t)
      [] block_id = 50 -> block_skip_u16(t)
      [] OTHER -> BlkRet(t, "true")

\* next_block that leaves buffer_offset as the block before left it
next_block_keeping_offset(t) ==
    IF t.tape_ended THEN BlkRet(t, "false")
    ELSE IF ~read_exact_ok(t.pos, 1) THEN header_read_failed(t, 1)
    ELSE decode_block(asset_byte(t.pos, 0),
                      [t EXCEPT !.pos = t.pos + 1,
                                !.block_bytes_read = 0])

next_block(t) ==
    IF t.tape_ended THEN BlkRet(t, "false")
    ELSE IF ~read_exact_ok(t.pos, 1) THEN header_read_failed(t, 1)
    ELSE decode_block(asset_byte(t.pos, 0),
                      [t EXCEPT !.pos = t.pos + 1,
                                !.buffer_offset = 0,
                                !.block_bytes_read = 0])

----------------------------------------------------------------------------
(* process_current_block: Result<()>. r is "Ok", "InvalidTzxFile" (a       *)
(* payload byte was expected and next_block_byte returned None), "IoError" *)
(* or "Panic". What a failing call changed before it failed stays changed. *)

PcbRet(t, r) == [t |-> t, r |-> r]

\* .ok_or(TapeLoadError::InvalidTzxFile) on what next_block_byte returned
ok_or_invalid(nb) == [nb EXCEPT !.r = IF nb.r = "None" THEN "InvalidTzxFile" ELSE nb.r]

\* next_block_byte()?.ok_or(TapeLoadError::InvalidTzxFile)?
expect_block_byte(t) == ok_or_invalid(next_block_byte(t))

\* while self.next_block_byte()?.is_some() {}  (line 867): nb is what the
\* call of this round returned
RECURSIVE skip_block_bytes(_)
skip_while_some(nb) ==
    IF nb.r = "Some" THEN skip_block_bytes(nb.t)
    ELSE PcbRet(nb.t, IF nb.r = "None" THEN "Ok" ELSE nb.r)

skip_block_bytes(t) == skip_while_some(next_block_byte(t))

(* In the dispatchers below nb is what expect_block_byte returned for the  *)
(* first payload byte: a read that failed returns its error with the ?.    *)

\* lines 776-783
\* the pilot of a standard block with the two pulse counts swapped
standard_pilot_swapped(nb) ==
    IF nb.r # "Some" THEN PcbRet(nb.t, nb.r)
    ELSE PcbRet([nb.t EXCEPT
                   !.curr_byte = nb.b,
                   !.delay = nb.t.delay + nb.t.tape_timings.pilot_length,
                   !.state = StPilot(IF nb.b = 0
                                     THEN nb.t.tape_timings.pilot_pulses_data
                                     ELSE nb.t.tape_timings.pilot_pulses_header)], "Ok")

standard_pilot(nb) ==
    IF nb.r # "Some" THEN PcbRet(nb.t, nb.r)
    ELSE PcbRet([nb.t EXCEPT
                   !.curr_byte = nb.b,
                   !.delay = nb.t.delay + nb.t.tape_timings.pilot_length,
                   !.state = StPilot(IF nb.b = 0
                                     THEN nb.t.tape_timings.pilot_pulses_header
                                     ELSE nb.t.tape_timings.pilot_pulses_data)], "Ok")

\* lines 771-784
dispatch_standard_speed_data(t) == standard_pilot(expect_block_byte(t))

\* lines 790-794
turbo_pilot(nb) ==
    IF nb.r # "Some" THEN PcbRet(nb.t, nb.r)
    ELSE IF ~nb.t.tape_timings.pilot_tone_length.some THEN PcbRet(nb.t, "Panic")
    ELSE PcbRet([nb.t EXCEPT
                   !.curr_byte = nb.b,
                   !.delay = nb.t.delay + nb.t.tape_timings.pilot_length,
                   !.state = StPilot(nb.t.tape_timings.pilot_tone_length.v)], "Ok")

\* lines 785-795
dispatch_turbo_speed_data(t) == turbo_pilot(expect_block_byte(t))

\* lines 800-802
direct_first_sample(nb) ==
    IF nb.r # "Some" THEN PcbRet(nb.t, nb.r)
    ELSE PcbRet([nb.t EXCEPT !.curr_byte = nb.b,
                             !.curr_bit = ~nb.t.curr_bit,
                             !.state = StNextDirectRecordingBit(128)], "Ok")

\* lines 796-803
dispatch_direct_recording(t) == direct_first_sample(expect_block_byte(t))

\* lines 804-809
dispatch_pure_tone(t) ==
    IF ~t.tape_timings.pilot_tone_length.some THEN PcbRet(t, "Panic")
    ELSE PcbRet([t EXCEPT !.delay = t.delay + t.tape_timings.pilot_length,
                          !.state = StPureTone(t.tape_timings.pilot_tone_length.v)],
                "Ok")

\* two payload bytes read as a u16 (lines 814-821, 834-841, 657-664):
\* r is "Some" with the value in b, or the error of the read that failed
u16_of_bytes(byte1, b2) ==
    IF b2.r # "Some" THEN b2
    ELSE ByteRet(b2.t, "Some", u16_from_le_bytes(byte1, b2.b))

u16_second_byte(b1) ==
    IF b1.r # "Some" THEN b1 ELSE u16_of_bytes(b1.b, expect_block_byte(b1.t))

expect_block_u16(t) == u16_second_byte(expect_block_byte(t))

\* lines 821-822: w is the pulse length read
first_pulse(pulses_left, w) ==
    IF w.r # "Some" THEN PcbRet(w.t, w.r)
    ELSE PcbRet([w.t EXCEPT !.delay = w.t.delay + w.b,
                            !.state = StPulseSequence(pulses_left)], "Ok")

\* lines 810-823
dispatch_pulse_sequence(t) ==
    IF ~t.tape_timings.pilot_tone_length.some THEN PcbRet(t, "Panic")
    ELSE first_pulse(t.tape_timings.pilot_tone_length.v, expect_block_u16(t))

\* lines 828-831
pure_data_first_byte(nb) ==
    IF nb.r # "Some" THEN PcbRet(nb.t, nb.r)
    ELSE PcbRet([nb.t EXCEPT !.curr_byte = nb.b,
                             !.curr_bit = ~nb.t.curr_bit,
                             !.state = StNextBit(128)], "Ok")

\* lines 824-832
dispatch_pure_data(t) == pure_data_first_byte(expect_block_byte(t))

\* lines 841-846: w is the length read back from the buffer
silence_of(w) ==
    IF w.r # "Some" THEN PcbRet(w.t, w.r)
    ELSE PcbRet([w.t EXCEPT !.delay = w.t.delay + MS_TSTATES,
                            !.state = StSilence(w.b)], "Ok")

\* lines 833-847
dispatch_pause_or_silence(t) == silence_of(expect_block_u16(t))

\* lines 848-859: LoopEnd, GroupStart, GroupEnd
dispatch_control(t) == PcbRet([t EXCEPT !.delay = 0, !.state = StPlay], "Ok")

\* lines 860-863: Unknown, StopIf48k
dispatch_skipped(t) == PcbRet([t EXCEPT !.state = StPlay], "Ok")

\* lines 864-869: any other block ID
play_after_skip(d) ==
    IF d.r # "Ok" THEN d ELSE PcbRet([d.t EXCEPT !.state = StPlay], "Ok")

dispatch_other(t) == play_after_skip(skip_block_bytes(t))

process_current_block(t) ==
    IF ~t.current_block_id.some THEN PcbRet(t, "Ok")
    ELSE LET id == t.current_block_id.v IN
         CASE id = "StandardSpeedData" -> dispatch_standard_speed_data(t)
           [] id = "TurboSpeedData" -> dispatch_turbo_speed_data(t)
           [] id = "DirectRecording" -> dispatch_direct_recording(t)
           [] id = "PureTone" -> dispatch_pure_tone(t)
           [] id = "PulseSequence" -> dispatch_pulse_sequence(t)
           [] id = "PureDataBlock" -> dispatch_pure_data(t)
           [] id = "PauseOrSilence" -> dispatch_pause_or_silence(t)
           [] id \in {"LoopEnd", "GroupStart", "GroupEnd"} -> dispatch_control(t)
           [] id \in {"Unknown", "StopIf48k"} -> dispatch_skipped(t)
           [] OTHER -> dispatch_other(t)

----------------------------------------------------------------------------
(* process_clocks: the arms of the 'state_machine loop. An arm returns the *)
(* engine after it, r = "Ok" or the error the call returns with, and brk = *)
(* TRUE when the arm leaves the loop (break 'state_machine).               *)

ArmRet(t, r, brk) == [t |-> t, r |-> r, brk |-> brk]

\* x -= 1 on a usize: [ok, v]; at 0 it panics with overflow checks and
\* wraps to usize::MAX without
usize_decrement(x) ==
    IF x > 0 THEN [ok |-> TRUE, v |-> x - 1]
    ELSE [ok |-> ~overflow_checks, v |-> USIZE_MAX]

\* mask >>= 1 on a u8
shift_right(mask) == mask \div 2

\* lines 585-608
\* the Init arm without the break of line 607
arm_init_without_break(t) ==
    LET p == seek_start(0) IN
    IF ~read_exact_ok(p, HEADER_SIZE)
    THEN ArmRet([t EXCEPT !.pos = read_exact_pos(p, HEADER_SIZE)],
                "InvalidTapFile", TRUE)
    ELSE IF ~utf8_ok(asset_bytes(p, 8))
    THEN ArmRet([t EXCEPT !.pos = p + HEADER_SIZE], "Panic", TRUE)
    ELSE ArmRet([t EXCEPT !.pos = p + HEADER_SIZE,
                          !.state = StPlay,
                          !.buffer_offset = t.buffer_offset + HEADER_SIZE],
                "Ok", FALSE)

arm_init(t) ==
    LET p == seek_start(0) IN
    IF ~read_exact_ok(p, HEADER_SIZE)
    THEN ArmRet([t EXCEPT !.pos = read_exact_pos(p, HEADER_SIZE)],
                "InvalidTapFile", TRUE)
    ELSE IF ~utf8_ok(asset_bytes(p, 8))
    THEN ArmRet([t EXCEPT !.pos = p + HEADER_SIZE], "Panic", TRUE)
    ELSE ArmRet([t EXCEPT !.pos = p + HEADER_SIZE,
                          !.state = StPlay,
                          !.buffer_offset = t.buffer_offset + HEADER_SIZE],
                "Ok", TRUE)

\* lines 609-614
arm_stop(t) == ArmRet([t EXCEPT !.state = StStop], "Ok", TRUE)

\* lines 615-621
play_or_stop(nb) ==
    IF nb.r = "false" THEN ArmRet([nb.t EXCEPT !.state = StStop], "Ok", FALSE)
    ELSE IF nb.r = "true" THEN ArmRet([nb.t EXCEPT !.state = StProcess], "Ok", FALSE)
    ELSE ArmRet(nb.t, nb.r, TRUE)

arm_play(t) == play_or_stop(next_block(t))

\* lines 622-626: an Err of process_current_block is dropped by is_ok() and
\* the loop goes on; only a panic leaves it
break_if_ok(pcb) ==
    IF pcb.r = "Ok" THEN ArmRet(pcb.t, "Ok", TRUE)
    ELSE IF pcb.r = "Panic" THEN ArmRet(pcb.t, "Panic", TRUE)
    ELSE ArmRet(pcb.t, "Ok", FALSE)

arm_process(t) == break_if_ok(process_current_block(t))

\* lines 627-638
arm_pilot(t) ==
    LET d  == usize_decrement(t.state.pulses_left)
        t1 == [t EXCEPT !.curr_bit = ~t.curr_bit]
    IN IF ~d.ok THEN ArmRet(t1, "Panic", TRUE)
       ELSE IF d.v = 0
       THEN ArmRet([t1 EXCEPT !.delay = t.delay + t.tape_timings.sync1_length,
                              !.state = StSync], "Ok", TRUE)
       ELSE ArmRet([t1 EXCEPT !.delay = t.delay + t.tape_timings.pilot_length,
                              !.state = StPilot(d.v)], "Ok", TRUE)

\* lines 639-649
arm_pure_tone(t) ==
    LET d  == usize_decrement(t.state.pulses_left)
        t1 == [t EXCEPT !.curr_bit = ~t.curr_bit]
    IN IF ~d.ok THEN ArmRet(t1, "Panic", TRUE)
       ELSE IF d.v = 0 THEN ArmRet([t1 EXCEPT !.state = StPlay], "Ok", TRUE)
       ELSE ArmRet([t1 EXCEPT !.delay = t.delay + t.tape_timings.pilot_length,
                              !.state = StPureTone(d.v)], "Ok", TRUE)

\* lines 650-669
next_pulse(pulses_left, w) ==
    IF w.r # "Some" THEN ArmRet(w.t, w.r, TRUE)
    ELSE ArmRet([w.t EXCEPT !.delay = w.t.delay + w.b,
                            !.state = StPulseSequence(pulses_left)], "Ok", TRUE)

arm_pulse_sequence(t) ==
    LET d  == usize_decrement(t.state.pulses_left)
        t1 == [t EXCEPT !.curr_bit = ~t.curr_bit]
    IN IF ~d.ok THEN ArmRet(t1, "Panic", TRUE)
       ELSE IF d.v = 0 THEN ArmRet([t1 EXCEPT !.state = StPlay], "Ok", TRUE)
       ELSE next_pulse(d.v, expect_block_u16(t1))

\* lines 670-675
arm_sync(t) ==
    ArmRet([t EXCEPT !.curr_bit = ~t.curr_bit,
                     !.delay = t.delay + t.tape_timings.sync2_length,
                     !.state = StNextBit(128)], "Ok", TRUE)

\* lines 676-689
\* the NextByte arm with a break after the end of the payload
bit_or_pause_with_break(is_direct_recording_sample, nb) ==
    IF nb.r = "Some"
    THEN ArmRet([nb.t EXCEPT !.curr_byte = nb.b,
                             !.state = IF is_direct_recording_sample
                                       THEN StNextDirectRecordingBit(128)
                                       ELSE StNextBit(128)], "Ok", FALSE)
    ELSE IF nb.r = "None" THEN ArmRet([nb.t EXCEPT !.state = StPause], "Ok", TRUE)
    ELSE ArmRet(nb.t, nb.r, TRUE)

bit_or_pause(is_direct_recording_sample, nb) ==
    IF nb.r = "Some"
    THEN ArmRet([nb.t EXCEPT !.curr_byte = nb.b,
                             !.state = IF is_direct_recording_sample
                                       THEN StNextDirectRecordingBit(128)
                                       ELSE StNextBit(128)], "Ok", FALSE)
    ELSE IF nb.r = "None" THEN ArmRet([nb.t EXCEPT !.state = StPause], "Ok", FALSE)
    ELSE ArmRet(nb.t, nb.r, TRUE)

arm_next_byte(t) ==
    bit_or_pause(t.state.is_direct_recording_sample, next_block_byte(t))

\* lines 690-709
arm_next_bit(t) ==
    LET mask == t.state.mask
        len  == IF ~BitSet(t.curr_byte, mask) THEN t.tape_timings.bit_0_length
                                              ELSE t.tape_timings.bit_1_length
    IN ArmRet([t EXCEPT !.curr_bit = ~t.curr_bit,
                        !.delay = t.delay + len,
                        !.state = StBitHalf(len, mask)], "Ok", TRUE)

\* lines 711-728
arm_next_direct_recording_bit(t) ==
    LET bit  == ~BitSet(t.curr_byte, t.state.mask)
        mask == shift_right(t.state.mask)
        d    == usize_decrement(t.bits_to_process_in_byte)
        t1   == [t EXCEPT !.delay = t.delay + t.tape_timings.bit_0_length,
                          !.curr_bit = IF bit # t.curr_bit THEN ~t.curr_bit
                                                           ELSE t.curr_bit]
    IN IF ~d.ok THEN ArmRet(t1, "Panic", TRUE)
       ELSE ArmRet([t1 EXCEPT !.bits_to_process_in_byte = d.v,
                              !.state = IF mask = 0 \/ d.v = 0
                                        THEN StNextByte(TRUE)
                                        ELSE StNextDirectRecordingBit(mask)],
                   "Ok", TRUE)

\* lines 729-746
\* the BitHalf arm scheduling the second half of every bit as a 0 bit
arm_bit_half_as_zero(t) ==
    LET mask == shift_right(t.state.mask)
        d    == usize_decrement(t.bits_to_process_in_byte)
        t1   == [t EXCEPT !.curr_bit = ~t.curr_bit,
                          !.delay = t.delay + t.tape_timings.bit_0_length]
    IN IF ~d.ok THEN ArmRet(t1, "Panic", TRUE)
       ELSE ArmRet([t1 EXCEPT !.bits_to_process_in_byte = d.v,
                              !.state = IF mask = 0 \/ d.v = 0
                                        THEN StNextByte(FALSE)
                                        ELSE StNextBit(mask)], "Ok", TRUE)

arm_bit_half(t) ==
    LET mask == shift_right(t.state.mask)
        d    == usize_decrement(t.bits_to_process_in_byte)
        t1   == [t EXCEPT !.curr_bit = ~t.curr_bit,
                          !.delay = t.delay + t.state.half_bit_delay]
    IN IF ~d.ok THEN ArmRet(t1, "Panic", TRUE)
       ELSE ArmRet([t1 EXCEPT !.bits_to_process_in_byte = d.v,
                              !.state = IF mask = 0 \/ d.v = 0
                                        THEN StNextByte(FALSE)
                                        ELSE StNextBit(mask)], "Ok", TRUE)

\* lines 748-755
arm_pause(t) ==
    LET delay == t.delay + t.tape_timings.pause_length * MS_TSTATES IN
    ArmRet([t EXCEPT !.delay = delay,
                     !.state = StPlay,
                     !.curr_bit = ~t.curr_bit], "Ok", delay > 0)

\* lines 756-761
arm_silence(t) ==
    ArmRet([t EXCEPT !.curr_bit = ~t.curr_bit,
                     !.delay = t.delay + t.state.length * MS_TSTATES,
                     !.state = StPlay], "Ok", TRUE)

\* match self.state, lines 584-762
run_arm(t) ==
    LET tag == t.state.tag IN
    CASE tag = "Init" -> arm_init(t)
      [] tag = "Stop" -> arm_stop(t)
      [] tag = "Play" -> arm_play(t)
      [] tag = "Process" -> arm_process(t)
      [] tag = "Pilot" -> arm_pilot(t)
      [] tag = "PureTone" -> arm_pure_tone(t)
      [] tag = "PulseSequence" -> arm_pulse_sequence(t)
      [] tag = "Sync" -> arm_sync(t)
      [] tag = "NextByte" -> arm_next_byte(t)
      [] tag = "NextBit" -> arm_next_bit(t)
      [] tag = "NextDirectRecordingBit" -> arm_next_direct_recording_bit(t)
      [] tag = "BitHalf" -> arm_bit_half(t)
      [] tag = "Pause" -> arm_pause(t)
      [] tag = "Silence" -> arm_silence(t)

(* The loop, lines 582-763. ProcRet: the engine after the call, r = "Ok",  *)
(* an error, "Panic", or "Hang" when the loop never ends: an arm that does *)
(* not break and leaves the engine as it found it runs again and again.    *)
(* arms lists the arms the call executed, each with the engine before and  *)
(* after it.                                                               *)

ProcRet(t, r, arms) == [t |-> t, r |-> r, arms |-> arms]

ArmRecord(t, a) == [from |-> t, to |-> a.t]

\* one round of the loop: a is what the arm of t.state returned
RECURSIVE state_machine(_, _)
loop_round(t, a, arms) ==
    IF a.r # "Ok" THEN ProcRet(a.t, a.r, arms)
    ELSE IF a.brk THEN ProcRet(a.t, "Ok", arms)
    ELSE IF a.t = t THEN ProcRet(t, "Hang", arms)
    ELSE state_machine(a.t, arms)

arm_of_round(t, a, arms) == loop_round(t, a, Append(arms, ArmRecord(t, a)))

state_machine(t, arms) == arm_of_round(t, run_arm(t), arms)

\* process_clocks without the early return of lines 571-573
process_clocks_without_stop_check(t, clocks) ==
    LET delay == IF t.delay > 0 THEN t.delay - clocks ELSE t.delay IN
    IF t.delay > 0 /\ delay > 0
    THEN ProcRet([t EXCEPT !.delay = delay], "Ok", <<>>)
    ELSE state_machine([t EXCEPT !.delay = delay], <<>>)

\* process_clocks that subtracts the clocks from a delay that is used up
process_clocks_subtracting_always(t, clocks) ==
    IF t.state = StStop THEN ProcRet(t, "Ok", <<>>)
    ELSE LET delay == t.delay - clocks IN
         IF delay > 0
         THEN ProcRet([t EXCEPT !.delay = delay], "Ok", <<>>)
         ELSE state_machine([t EXCEPT !.delay = delay], <<>>)

\* lines 570-766
process_clocks(t, clocks) ==
    IF t.state = StStop THEN ProcRet(t, "Ok", <<>>)
    ELSE LET delay == IF t.delay > 0 THEN t.delay - clocks ELSE t.delay IN
         IF t.delay > 0 /\ delay > 0
         THEN ProcRet([t EXCEPT !.delay = delay], "Ok", <<>>)
         ELSE state_machine([t EXCEPT !.delay = delay], <<>>)

----------------------------------------------------------------------------
(* The tape controller                                                     *)

\* stop() that also cancels the edge that is scheduled
stop_cancelling_edge(t) ==
    [t EXCEPT !.prev_state = t.state, !.state = StStop, !.delay = 0]

\* lines 875-879
stop(t) == [t EXCEPT !.prev_state = t.state, !.state = StStop]

\* play() starting at the next block whatever stop() saved
play_from_next_block(t) ==
    IF t.state = StStop THEN [t EXCEPT !.state = StPlay] ELSE t

\* lines 881-890
play(t) ==
    IF t.state = StStop
    THEN IF t.prev_state = StStop THEN [t EXCEPT !.state = StPlay]
                                  ELSE [t EXCEPT !.state = t.prev_state]
    ELSE t

\* rewind() that leaves the byte source where it is
rewind_without_seek(t) ==
    [t EXCEPT !.curr_bit = FALSE,
              !.curr_byte = 0,
              !.block_bytes_read = 0,
              !.buffer_offset = 0,
              !.current_block_size = None,
              !.delay = 0,
              !.tape_ended = FALSE]

\* rewind() that also restarts the state machine, keeping the state it was
\* in as stop() does
rewind_saving_state(t) ==
    [t EXCEPT !.curr_bit = FALSE,
              !.curr_byte = 0,
              !.block_bytes_read = 0,
              !.buffer_offset = 0,
              !.current_block_size = None,
              !.delay = 0,
              !.pos = seek_start(0),
              !.tape_ended = FALSE,
              !.prev_state = t.state,
              !.state = StInit]

\* lines 892-903 (the seek of the asset to its start cannot fail)
rewind(t) ==
    [t EXCEPT !.curr_bit = FALSE,
              !.curr_byte = 0,
              !.block_bytes_read = 0,
              !.buffer_offset = 0,
              !.current_block_size = None,
              !.delay = 0,
              !.pos = seek_start(0),
              !.tape_ended = FALSE]

\* line 566
current_bit(t) == t.curr_bit

\* line 188
can_fast_load(t) == t.state = StStop

----------------------------------------------------------------------------
(* Tapes: the TZX wire format (little-endian fields)                       *)

le16(x) == <<x % 256, (x \div 256) % 256>>
le24(x) == <<x % 256, (x \div 256) % 256, (x \div 65536) % 256>>

\* "ZXTape!", 0x1A, major 1, minor 20
TzxHeader == <<90, 88, 84, 97, 112, 101, 33, 26, 1, 20>>

BlkStandard(pause, data) == <<16>> \o le16(pause) \o le16(Len(data)) \o data
BlkTurbo(pilot, sync1, sync2, bit0, bit1, tone, used, pause, data) ==
    <<17>> \o le16(pilot) \o le16(sync1) \o le16(sync2) \o le16(bit0) \o le16(bit1)
           \o le16(tone) \o <<used>> \o le16(pause) \o le24(Len(data)) \o data
BlkPureTone(pilot, count) == <<18>> \o le16(pilot) \o le16(count)
BlkPulses2(w1, w2) == <<19, 2>> \o le16(w1) \o le16(w2)
BlkPureData(bit0, bit1, used, pause, data) ==
    <<20>> \o le16(bit0) \o le16(bit1) \o <<used>> \o le16(pause)
           \o le24(Len(data)) \o data
BlkDirect(tstates, pause, used, data) ==
    <<21>> \o le16(tstates) \o le16(pause) \o <<used>> \o le24(Len(data)) \o data
BlkPause(ms) == <<32>> \o le16(ms)
BlkGroupStart(text) == <<33, Len(text)>> \o text
BlkGroupEnd == <<34>>
BlkLoopStart(reps) == <<36>> \o le16(reps)
BlkLoopEnd == <<37>>
BlkStopIf48k == <<42, 0, 0, 0, 0>>
BlkText(text) == <<48, Len(text)>> \o text
BlkArchive(data) == <<50>> \o le16(Len(data)) \o data

\* the turbo block of the short tapes: timings that differ from every STD_*
TurboPilot == 2000
TurboSync1 == 600
TurboSync2 == 700
TurboBit0 == 500
TurboBit1 == 1000
TurboTone == 3
TurboPause == 2
TurboBlock(used, data) ==
    BlkTurbo(TurboPilot, TurboSync1, TurboSync2, TurboBit0, TurboBit1,
             TurboTone, used, TurboPause, data)

\* scenario 4 of the specification: a loop around a pure tone
LoopReps == 3
TonePulses == 2
ToneLength == 2056
LoopBlocks == BlkLoopStart(LoopReps) \o BlkPureTone(ToneLength, TonePulses) \o BlkLoopEnd

TapeHeaderOnly == TzxHeader
TapeTruncated == <<90, 88, 84>>
TapeTurbo == TzxHeader \o TurboBlock(3, <<165, 192>>)
TapeTurboZeroBits == TzxHeader \o TurboBlock(0, <<129>>)
TapeLoop == TzxHeader \o LoopBlocks
TapeGroupLoop == TzxHeader \o BlkGroupStart(<<97, 98>>) \o LoopBlocks \o BlkGroupEnd
TapeToneLoop == TzxHeader \o BlkPureTone(ToneLength, TonePulses) \o LoopBlocks
TapeStopThenTone == TzxHeader \o BlkPause(0) \o BlkPureTone(ToneLength, TonePulses)
TapeEmptyStandard == TzxHeader \o BlkStandard(0, <<>>)
TapeSilenceFirst == TzxHeader \o BlkPause(2)
TapeStop48 == TzxHeader \o BlkStopIf48k \o BlkPureTone(ToneLength, TonePulses)
TapePulses ==
    TzxHeader \o BlkPulses2(300, 400) \o BlkPureData(TurboBit0, TurboBit1, 2, 0, <<64>>)
TapeDirect == TzxHeader \o BlkDirect(79, 1, 4, <<160>>) \o BlkPause(1) \o <<52>>
TapeText ==
    TzxHeader \o BlkText(<<104, 105>>) \o BlkArchive(<<1, 2, 3>>) \o <<52, 90>>
              \o BlkPureTone(ToneLength, TonePulses)

\* scenario 2 of the specification, a data block, and a standard block
\* that follows a turbo block
TapeStandard == TzxHeader \o BlkStandard(1000, <<0, 255>>)
TapeStandardData == TzxHeader \o BlkStandard(1, <<255>>)
TapeTurboThenStandard ==
    TzxHeader \o TurboBlock(3, <<165, 192>>) \o BlkStandard(1, <<255, 0>>)

\* tapes that end in the middle of a payload: of a standard block (5 bytes
\* announced, 2 there) and of a direct recording (3 announced, 1 there)
TapeShortStandard == TzxHeader \o <<16, 0, 0, 5, 0, 1, 2>>
TapeShortDirect == TzxHeader \o <<21, 79, 0, 1, 0, 8, 3, 0, 0, 160>>

\* a text description one character longer than the buffer
TapeLongText == TzxHeader \o BlkText([i \in 1..(BUFFER_SIZE + 1) |-> 65])

Tapes ==
    { TapeLongText, TapeShortStandard, TapeShortDirect, TapeHeaderOnly, TapeTruncated, TapeTurbo, TapeTurboZeroBits, TapeLoop,
      TapeGroupLoop, TapeToneLoop, TapeStopThenTone, TapeEmptyStandard,
      TapeSilenceFirst, TapeStop48, TapePulses, TapeDirect, TapeText }

\* tapes on which an unsigned subtraction goes below zero: both build
\* profiles are explored for them
WrapTapes == { TapeTurboZeroBits }

\* tapes with the long pilot tones of standard blocks, played without
\* intervention
PlayTapes == { TapeStandard, TapeStandardData, TapeTurbo, TapeTurboThenStandard }

BuildProfiles(tp) == IF tp \in WrapTapes THEN BOOLEAN ELSE {TRUE}

----------------------------------------------------------------------------
(* The host: when it calls process_clocks and how often it intervenes      *)

\* how late a late call is, in T-states
Late == 3000
\* control operations (stop, play, rewind) per run
MaxCtl == 2
\* process_clocks calls counted (the counter saturates here)
MaxCalls == 2

\* the clock counts the host passes: exactly what remains until the edge,
\* that plus Late, and one T-state short of the edge
ClockInputs(t) ==
    LET due == Max(1, t.delay) IN
    {due, due + Late} \cup (IF t.delay > 1 THEN {t.delay - 1} ELSE {})

\* a panic ends the process and a hang never returns: no further call
Dead == {"Panic", "Hang"}

----------------------------------------------------------------------------
(* History: what the run has shown so far. The counts are kept up to the   *)
(* first call that does not return Ok (obs.ok); an engine that keeps       *)
(* failing keeps toggling, and its counts would grow without end.          *)

Brief(a) ==
    [ arm |-> a.from.state.tag,
      to  |-> a.to.state.tag,
      add |-> a.to.delay - a.from.delay,
      tog |-> IF a.to.curr_bit # a.from.curr_bit THEN 1 ELSE 0 ]

Briefs(arms) == [i \in 1..Len(arms) |-> Brief(arms[i])]

NoBlock ==
    [ id |-> "None", block_pos |-> 0, size |-> 0, first |-> 0, pilot |-> 0,
      used |-> 0, edges |-> 0, pause |-> 0 ]

ObsInit ==
    [ ok |-> TRUE,        \* every process_clocks call so far returned Ok
      next_pos  |-> 0,    \* where the Play arm last started to read
      block_pos |-> 0,    \* where the ID of the block last dispatched is
      id    |-> "None",   \* the block ID the dispatcher last dispatched on
      first |-> 0,        \* curr_byte after the dispatch
      pilot |-> 0,        \* pulses_left after the dispatch
      edges |-> 0,        \* toggles of curr_bit since the dispatch
      pairs |-> 0,        \* BitHalf arms run for the current byte
      total |-> 0,        \* toggles of curr_bit since construction
      done  |-> NoBlock ] \* the data block whose Pause arm ran last, with
                          \* the delay that arm added

ObserveArm(o, a) ==
    LET tag == a.from.state.tag
        tog == IF a.to.curr_bit # a.from.curr_bit THEN 1 ELSE 0
        o1  == IF tag = "Play" THEN [o EXCEPT !.next_pos = a.from.pos]
               ELSE IF tag = "Process"
               THEN [o EXCEPT !.id = IF a.from.current_block_id.some
                                     THEN a.from.current_block_id.v ELSE "None",
                              !.block_pos = o.next_pos,
                              !.first = a.to.curr_byte,
                              !.pilot = IF a.to.state.tag = "Pilot"
                                        THEN a.to.state.pulses_left ELSE 0,
                              !.edges = 0,
                              !.pairs = 0]
               ELSE IF tag = "NextByte" THEN [o EXCEPT !.pairs = 0]
               ELSE IF tag = "BitHalf" THEN [o EXCEPT !.pairs = o.pairs + 1]
               ELSE o
        o2  == [o1 EXCEPT !.edges = o1.edges + tog, !.total = o1.total + tog]
    IN IF tag = "Pause"
       THEN [o2 EXCEPT !.done = [ id    |-> o2.id,
                                  block_pos |-> o2.block_pos,
                                  pause |-> a.to.delay - a.from.delay,
                                  size  |-> IF a.from.current_block_size.some
                                            THEN a.from.current_block_size.v ELSE 0,
                                  first |-> o2.first,
                                  pilot |-> o2.pilot,
                                  used  |-> a.from.used_bits_in_last_byte,
                                  edges |-> o2.edges ]]
       ELSE o2

RECURSIVE ObserveFrom(_, _, _)
ObserveFrom(o, arms, i) ==
    IF i > Len(arms) THEN o ELSE ObserveFrom(ObserveArm(o, arms[i]), arms, i + 1)

Observe(o, r, arms) ==
    IF o.ok /\ r = "Ok" THEN ObserveFrom(o, arms, 1) ELSE [o EXCEPT !.ok = FALSE]

EnvInit ==
    [ ctl   |-> 0,               \* control operations so far
      calls |-> 0,               \* process_clocks calls so far (saturating)
      resumed_in_stop |-> FALSE, \* stop(); play() was called in state Stop
      again |-> FALSE,           \* the last control operation repeated the
                                 \* operation right before it
      id_pos |-> 0,              \* where the last direct next_block call
                                 \* found the byte source
      got   |-> 0,               \* bytes next_block_byte delivered since
      byte  |-> 0,               \* the last of them
      nones |-> 0 ]              \* None answers since (saturating)

----------------------------------------------------------------------------
(* Spec: one engine, driven by process_clocks, stop, play and rewind       *)

Init ==
    /\ tape \in Tapes
    /\ overflow_checks \in BuildProfiles(tape)
    /\ \E is48k \in BOOLEAN : tzx = from_asset(is48k)
    /\ result = "Ok"
    /\ last_op = "from_asset"
    /\ last_arms = <<>>
    /\ obs = ObsInit
    /\ env = EnvInit
    /\ ref = None

Returned(ret) ==
    /\ tzx' = ret.t
    /\ result' = ret.r
    /\ last_arms' = Briefs(ret.arms)
    /\ obs' = Observe(obs, ret.r, ret.arms)

Clock ==
    /\ result \notin Dead
    /\ \E n \in ClockInputs(tzx) : Returned(process_clocks(tzx, n))
    /\ last_op' = "process_clocks"
    /\ env' = [env EXCEPT !.calls = Min(env.calls + 1, MaxCalls), !.again = FALSE]
    /\ UNCHANGED <<tape, overflow_checks, ref>>

ControlUpTo(max, op, t) ==
    /\ result \notin Dead
    /\ env.ctl < max
    /\ tzx' = t
    /\ result' = "Ok"
    /\ last_op' = op
    /\ last_arms' = <<>>
    /\ env' = [env EXCEPT !.ctl = env.ctl + 1, !.again = (last_op = op)]
    /\ UNCHANGED <<tape, overflow_checks, obs, ref>>

Control(op, t) == ControlUpTo(MaxCtl, op, t)

Stop == Control("stop", stop(tzx))

Play == Control("play", play(tzx))

Rewind == Control("rewind", rewind(tzx))

Next == Clock \/ Stop \/ Play \/ Rewind

Spec == Init /\ [][Next]_vars

\* the host calls process_clocks for as long as a call changes anything
LoopTapes == { TapeLoop }

InitLoop == Init /\ tape \in LoopTapes

SpecLoop == InitLoop /\ [][Next]_vars /\ WF_vars(Clock)

----------------------------------------------------------------------------
(* SpecPlay: uninterrupted playback of the tapes with standard blocks      *)

InitPlay ==
    /\ tape \in PlayTapes
    /\ overflow_checks = TRUE
    /\ \E is48k \in BOOLEAN : tzx = from_asset(is48k)
    /\ result = "Ok"
    /\ last_op = "from_asset"
    /\ last_arms = <<>>
    /\ obs = ObsInit
    /\ env = EnvInit
    /\ ref = None

NextPlay == Clock

SpecPlay == InitPlay /\ [][NextPlay]_vars

----------------------------------------------------------------------------
(* Two engines on one tape, given the same clock counts: tzx, and in ref   *)
(* the engine it is compared with and what that engine's last call         *)
(* returned. The comparison goes on for as long as the two agree.          *)

Run(t, r) == [t |-> t, r |-> r]

Agree == ref.some /\ result = ref.v.r /\ current_bit(tzx) = current_bit(ref.v.t)

ClockFirst == ref = None /\ Clock

RefReturned(ret) == ref' = Some(Run(ret.t, ret.r))

ClockBoth ==
    /\ Agree
    /\ result \notin Dead
    /\ \E n \in ClockInputs(tzx) \cup ClockInputs(ref.v.t) :
          /\ Returned(process_clocks(tzx, n))
          /\ RefReturned(process_clocks(ref.v.t, n))
    /\ last_op' = "process_clocks"
    /\ env' = [env EXCEPT !.calls = Min(env.calls + 1, MaxCalls), !.again = FALSE]
    /\ UNCHANGED <<tape, overflow_checks>>

\* SpecRewind: rewind() at any point of playback, then the rewound engine
\* next to a freshly constructed one
RewindRef ==
    /\ ref = None
    /\ result \notin Dead
    /\ tzx' = rewind(tzx)
    /\ ref' = Some(Run(from_asset(tzx.is_48k_mode), "Ok"))
    /\ result' = "Ok"
    /\ last_op' = "rewind"
    /\ last_arms' = <<>>
    /\ UNCHANGED <<tape, overflow_checks, obs, env>>

NextRewind == ClockFirst \/ RewindRef \/ ClockBoth

SpecRewind == Init /\ [][NextRewind]_vars

\* SpecStopPlay: stop(); play() in any state the host can bring the engine
\* to, then the resumed engine next to the one left alone
StopPlay ==
    /\ ref = None
    /\ result \notin Dead
    /\ tzx' = play(stop(tzx))
    /\ ref' = Some(Run(tzx, "Ok"))
    /\ result' = "Ok"
    /\ last_op' = "stop_play"
    /\ last_arms' = <<>>
    /\ env' = [env EXCEPT !.resumed_in_stop = (tzx.state = StStop)]
    /\ UNCHANGED <<tape, overflow_checks, obs>>

\* the tapes of this comparison: every kind of data block, a block that
\* stops the tape, and the loop
StopPlayTapes ==
    { TapeHeaderOnly, TapeTurbo, TapeLoop, TapeStopThenTone, TapeStop48,
      TapePulses, TapeDirect }

InitStopPlay == Init /\ tape \in StopPlayTapes

NextStopPlay == ClockFirst \/ (ref = None /\ (Stop \/ Play)) \/ StopPlay \/ ClockBoth

SpecStopPlay == InitStopPlay /\ [][NextStopPlay]_vars

----------------------------------------------------------------------------
(* SpecReplay: a host that stops and resumes a short tape again and again, *)
(* also after it has ended, and never rewinds it                           *)

\* stop() and play() calls per run
MaxReplayCtl == 3

ReplayTapes == { TapeHeaderOnly, TapeShortDirect, TapeStopThenTone, TapeText }

InitReplay == Init /\ tape \in ReplayTapes

StopAgain == ControlUpTo(MaxReplayCtl, "stop", stop(tzx))

PlayAgain == ControlUpTo(MaxReplayCtl, "play", play(tzx))

NextReplay == Clock \/ StopAgain \/ PlayAgain

SpecReplay == InitReplay /\ [][NextReplay]_vars

----------------------------------------------------------------------------
(* SpecBytes: a host that reads the payload itself, as a fast loader does: *)
(* process_clocks once for the file header, then next_block and            *)
(* next_block_byte until the payload is exhausted, block after block       *)

\* payloads of up to this many buffers, one byte more and one byte less
MaxBuffers == 3
\* None answers the host asks for after the last byte
MaxNones == 2

Payload(n) == [i \in 1..n |-> (7 * i + 3) % 256]

PayloadSizes ==
    {0, 1} \cup { k * BUFFER_SIZE + d : k \in 1..MaxBuffers, d \in {-1, 0, 1} }

\* a standard block of each size, then a pure data block of a buffer and
\* two bytes, then a pause
ByteTapes ==
    { TzxHeader \o BlkStandard(1, Payload(n))
                \o BlkPureData(TurboBit0, TurboBit1, 8, 1, Payload(BUFFER_SIZE + 2))
                \o BlkPause(1) : n \in PayloadSizes }

InitBytes ==
    /\ tape \in ByteTapes
    /\ overflow_checks = TRUE
    /\ \E is48k \in BOOLEAN : tzx = from_asset(is48k)
    /\ result = "Ok"
    /\ last_op = "from_asset"
    /\ last_arms = <<>>
    /\ obs = ObsInit
    /\ env = EnvInit
    /\ ref = None

ReadHeader == tzx.state = StInit /\ Clock

BlockDecoded(ret) ==
    /\ tzx' = ret.t
    /\ result' = ret.r

\* next_block, at the start and when the payload before it is exhausted
CallNextBlock ==
    /\ tzx.state = StPlay
    /\ \/ last_op = "process_clocks" /\ result = "Ok"
       \/ last_op = "next_block_byte" /\ result = "None"
    /\ BlockDecoded(next_block(tzx))
    /\ last_op' = "next_block"
    /\ last_arms' = <<>>
    /\ env' = [env EXCEPT !.id_pos = tzx.pos, !.got = 0, !.byte = 0, !.nones = 0]
    /\ UNCHANGED <<tape, overflow_checks, obs, ref>>

ByteDelivered(ret) ==
    /\ tzx' = ret.t
    /\ result' = ret.r
    /\ env' = IF ret.r = "Some"
              THEN [env EXCEPT !.got = env.got + 1, !.byte = ret.b]
              ELSE [env EXCEPT !.nones = env.nones + 1]

CallNextBlockByte ==
    /\ \/ last_op = "next_block" /\ result = "true"
       \/ last_op = "next_block_byte" /\ result \in {"Some", "None"}
    /\ env.nones < MaxNones
    /\ ByteDelivered(next_block_byte(tzx))
    /\ last_op' = "next_block_byte"
    /\ last_arms' = <<>>
    /\ UNCHANGED <<tape, overflow_checks, obs, ref>>

NextBytes == ReadHeader \/ CallNextBlock \/ CallNextBlockByte

SpecBytes == InitBytes /\ [][NextBytes]_vars

----------------------------------------------------------------------------
(* Properties                                                              *)

\* clock counts a host may pass, beyond those of ClockInputs
AnyClocks == {0, 1, Late, STD_PAUSE_LENGTH}

Returned_Ok == last_op = "process_clocks" /\ result = "Ok"

LastArm == last_arms[Len(last_arms)]

\* C1: in every reachable state whose state is Stop, process_clocks(n) is a
\* no-op for any n: it returns Ok and leaves every field of the engine
\* (state, delay, curr_bit, the position of the byte source, the buffer and
\* block bookkeeping) as it was, so current_bit() is stable in Stop.
C1_StopIsNoOp ==
    tzx.state = StStop =>
        \A n \in AnyClocks \cup ClockInputs(tzx) :
            process_clocks(tzx, n) = ProcRet(tzx, "Ok", <<>>)

\* a call of process_clocks made in Stop, in the middle of playback, with an
\* edge still scheduled
C1_ClockedInStop ==
    /\ tzx.state = StStop
    /\ last_op = "process_clocks"
    /\ last_arms = <<>>
    /\ tzx.delay > 0
    /\ obs.total > 0

\* C2 as stated: when process_clocks(n) returns successfully, state = Stop
\* or delay > 0 or tape_ended = true.
C2_StopOrDelayOrEnded ==
    Returned_Ok => (tzx.state = StStop \/ tzx.delay > 0 \/ tzx.tape_ended)

\* the arms of the state loop that end with a break whatever the delay is
BreakArms ==
    { "Init", "Process", "Pilot", "PureTone", "PulseSequence", "Sync",
      "NextBit", "NextDirectRecordingBit", "BitHalf", "Silence" }

\* C2 amended: when process_clocks(n) returns successfully, state = Stop or
\* delay > 0 or tape_ended = true, or the call left the state loop at the
\* break that ends the arm of Init, of the block dispatch or of an edge; the
\* delay is then <= 0 and the state is neither Init nor Pause.
C2_StopOrDelayOrEndedOrBreak ==
    Returned_Ok =>
        \/ tzx.state = StStop
        \/ tzx.delay > 0
        \/ tzx.tape_ended
        \/ /\ last_arms # <<>>
           /\ LastArm.arm \in BreakArms
           /\ tzx.state.tag \notin {"Init", "Pause"}

\* a successful call that ends at a break with nothing scheduled: the block
\* dispatch of a control block
C2_BreakWithoutDelay ==
    /\ Returned_Ok
    /\ tzx.state = StPlay /\ tzx.delay <= 0 /\ ~tzx.tape_ended
    /\ last_arms # <<>>
    /\ LastArm.arm = "Process"

\* C3: every call of process_clocks returns; the state loop makes finitely
\* many transitions without a delay before it breaks or returns an error.
C3_EveryCallReturns == result # "Hang"

C4_RewindReplaysFirstRun ==
    (ref.some /\ last_op = "process_clocks"
              /\ result \notin Dead /\ ref.v.r \notin Dead) =>
        (result = ref.v.r /\ current_bit(tzx) = current_bit(ref.v.t))

\* C5 as stated: from any reachable state, after stop(); play() every clock
\* schedule gives the same results and current_bit() values as it gives the
\* engine on which stop() and play() were not called.
C5_StopPlayChangesNothing ==
    ref.some => (result = ref.v.r /\ current_bit(tzx) = current_bit(ref.v.t))

\* C5 amended: from any reachable state other than Stop, after stop();
\* play() every clock schedule gives the same results and current_bit()
\* values as it gives the engine left alone; the two engines differ in
\* prev_state only.
C5_StopPlayOutsideStop ==
    (ref.some /\ ~env.resumed_in_stop) =>
        /\ result = ref.v.r
        /\ current_bit(tzx) = current_bit(ref.v.t)
        /\ tzx = [ref.v.t EXCEPT !.prev_state = tzx.prev_state]

\* an edge emitted after stop(); play() in the middle of a block
C5_EdgeAfterResume ==
    /\ ref.some /\ ~env.resumed_in_stop
    /\ last_op = "process_clocks"
    /\ last_arms # <<>> /\ LastArm.tog = 1
    /\ tzx.prev_state # ref.v.t.prev_state
    /\ tzx.state.tag \in {"Pilot", "BitHalf", "NextBit", "PureTone"}

(* The header of the block last read, as it is on the tape: obs.block_pos  *)
(* is where its ID byte is. These read the tape, not the engine.           *)
U16At(p) == tape[p + 1] + 256 * tape[p + 2]
U24At(p) == tape[p + 1] + 256 * tape[p + 2] + 65536 * tape[p + 3]

\* the bit of the byte that the pair-th bit pair (1 = first) stands for
PairBit(byte, pair) == BitSet(byte, 2 ^ (8 - pair))

StdPilotPulses(first) ==
    IF first = 0 THEN STD_PILOT_PULSES_HEADER ELSE STD_PILOT_PULSES_DATA

\* C6: for a StandardSpeedData block with size >= 1 (used_bits_in_last_byte
\* in its documented range 1..8), the toggles of curr_bit from the dispatch
\* of the block to the end of its Pause arm number
\* P + 2 + 2 * (8 * (size - 1) + used_bits_in_last_byte), P = 8063 when the
\* first payload byte is 0 and 3223 otherwise.
C6_StandardEdgeCount ==
    (obs.ok /\ obs.done.id = "StandardSpeedData" /\ obs.done.size >= 1
            /\ obs.done.used \in 1..8) =>
        obs.done.edges = StdPilotPulses(obs.done.first) + 2
                         + 2 * (8 * (obs.done.size - 1) + obs.done.used)

\* scenario 2 played to the end of its pause: flag byte 0, two payload bytes
C6_HeaderBlockPlayed ==
    /\ obs.ok
    /\ obs.done.id = "StandardSpeedData"
    /\ obs.done.size = 2
    /\ obs.done.first = 0
    /\ obs.done.edges > STD_PILOT_PULSES_HEADER

\* C7: a StandardSpeedData block is played with the standard timings
\* whatever was decoded before it: 8063 or 3223 pilot edges 2168 apart, sync
\* intervals of 667 and 735, every payload byte as eight bit pairs from the
\* MSB (855 + 855 for 0, 1710 + 1710 for 1), then a pause of pause_ms * 3500.
C7_StandardBlockTimings ==
    /\ (obs.ok /\ obs.id = "StandardSpeedData" /\ last_arms # <<>>) =>
          LET a == LastArm
              bit_length(pair) == IF PairBit(tzx.curr_byte, pair)
                                  THEN STD_BIT_ONE_LENGTH ELSE STD_BIT_ZERO_LENGTH
          IN /\ a.arm = "Process" =>
                    (a.add = STD_PILOT_LENGTH /\ obs.pilot = StdPilotPulses(obs.first))
             /\ a.arm = "Pilot" =>
                    a.add = IF a.to = "Sync" THEN STD_SYNC1_LENGTH ELSE STD_PILOT_LENGTH
             /\ a.arm = "Sync" => a.add = STD_SYNC2_LENGTH
             /\ a.arm = "NextBit" => a.add = bit_length(obs.pairs + 1)
             /\ a.arm = "BitHalf" => a.add = bit_length(obs.pairs)
             /\ (a.arm = "BitHalf" /\ a.to = "NextByte") => obs.pairs = 8
    /\ (obs.ok /\ obs.done.id = "StandardSpeedData") =>
          obs.done.pause = U16At(obs.done.block_pos + 1) * MS_TSTATES

\* C8: for a TurboSpeedData block (used bits in 1..8), every pilot, sync
\* and bit half-pulse delay scheduled while the block plays is the value in
\* the block's header on the tape, the pilot has the header's pulse count,
\* the bit pairs go from the MSB down, and the last payload byte emits
\* used_bits_in_last_byte pairs while every other byte emits 8.
C8_TurboBlockTimings ==
    (obs.ok /\ obs.id = "TurboSpeedData" /\ last_arms # <<>>
            /\ tape[obs.block_pos + 14] \in 1..8) =>
        LET a == LastArm
            hdr == obs.block_pos + 1
            used == tape[obs.block_pos + 14]
            size == U24At(hdr + 15)
            bit_length(pair) == IF PairBit(tzx.curr_byte, pair)
                                THEN U16At(hdr + 8) ELSE U16At(hdr + 6)
        IN /\ a.arm = "Process" =>
                  (a.add = U16At(hdr) /\ obs.pilot = U16At(hdr + 10))
           /\ a.arm = "Pilot" =>
                  a.add = IF a.to = "Sync" THEN U16At(hdr + 2) ELSE U16At(hdr)
           /\ a.arm = "Sync" => a.add = U16At(hdr + 4)
           /\ a.arm = "NextBit" => a.add = bit_length(obs.pairs + 1)
           /\ a.arm = "BitHalf" => a.add = bit_length(obs.pairs)
           /\ (a.arm = "BitHalf" /\ a.to = "NextByte") =>
                  obs.pairs = IF tzx.block_bytes_read >= size THEN used ELSE 8

\* the last byte of the turbo block, with 3 used bits, has emitted its pairs
C8_LastTurboByteDone ==
    /\ obs.ok /\ obs.id = "TurboSpeedData"
    /\ last_arms # <<>>
    /\ LastArm.arm = "BitHalf" /\ LastArm.to = "NextByte"
    /\ tzx.block_bytes_read = U24At(obs.block_pos + 16)
    /\ obs.pairs = 3

\* C9: on the tape LoopStart(N), PureTone(k pulses), LoopEnd, playback that
\* the host does not interrupt emits the k pulses of the tone N+1 times and
\* goes on past LoopEnd, here to the end of the tape: eventually the engine
\* is in Stop after k*(N+1) edges.
C9_LoopPlaysTone ==
    tape = TapeLoop =>
        <>(\/ env.ctl > 0
           \/ /\ tzx.state = StStop
              /\ obs.ok
              /\ obs.total = TonePulses * (LoopReps + 1))

----------------------------------------------------------------------------
(* What the TZX format says about the block at the position of the byte    *)
(* source: the bytes of its fixed fields, and of its payload               *)

BytesLeft(t) == Max(0, Len(tape) - t.pos)

IdByte(t) == tape[t.pos + 1]

FieldLen(id) ==
    CASE id \in {16, 18, 22, 23, 24, 25, 42, 43} -> 4
      [] id = 17 -> 18
      [] id \in {19, 33, 48} -> 1
      [] id = 20 -> 10
      [] id = 21 -> 8
      [] id \in {32, 36, 40, 50} -> 2
      [] OTHER -> 0

PayloadLen(t, id) ==
    CASE id = 16 -> U16At(t.pos + 3)
      [] id = 17 -> U24At(t.pos + 16)
      [] id = 19 -> 2 * tape[t.pos + 2]
      [] id = 20 -> U24At(t.pos + 8)
      [] id = 21 -> U24At(t.pos + 6)
      [] id \in {33, 48} -> tape[t.pos + 2]
      [] OTHER -> 0

\* the stream ends before the ID byte, inside the fixed fields, or inside
\* the first buffer load of the payload
EndOfStream(t) ==
    \/ BytesLeft(t) < 1
    \/ BytesLeft(t) - 1 < FieldLen(IdByte(t))
    \/ BytesLeft(t) - 1 - FieldLen(IdByte(t))
           < Min(PayloadLen(t, IdByte(t)), BUFFER_SIZE)

StopCondition(t) ==
    \/ t.tape_ended
    \/ EndOfStream(t)
    \/ IdByte(t) = 32 /\ U16At(t.pos + 1) = 0
    \/ IdByte(t) = 42 /\ t.is_48k_mode

\* next_block answers false exactly on a STOP condition and true otherwise
FalseExactlyOnStop(t, nb) ==
    nb.r # "Panic" =>
        /\ nb.r = "false" <=> StopCondition(t)
        /\ nb.r = "true" <=> ~StopCondition(t)

\* a call of process_clocks that finds the delay used up
DueClocks(t) == IF t.delay > 0 THEN {t.delay, t.delay + Late} ELSE AnyClocks

\* C11: next_block returns Ok(false) exactly in the STOP conditions (block
\* 0x20 with value 0, block 0x2A in 48K mode, the end of the stream: a failed
\* read, or tape_ended already set) and Ok(true) for every other block it
\* decodes; and when it returns false in state Play, process_clocks leaves
\* the engine in state Stop.
C11_FalseExactlyOnStop ==
    /\ FalseExactlyOnStop(tzx, next_block(tzx))
    /\ (tzx.state = StPlay /\ next_block(tzx).r = "false") =>
           \A n \in DueClocks(tzx) : process_clocks(tzx, n).t.state = StStop

\* the read failure was taken as the end of the tape
Absorbed(nb) == nb.r = "false" /\ nb.t.tape_ended

\* C13: every read failure of the byte source inside next_block (ID byte,
\* fixed fields of the block, first buffer load of the payload of blocks
\* 0x10, 0x11, 0x13, 0x14, 0x15, 0x21, 0x30) is absorbed: next_block sets
\* tape_ended and returns Ok(false), never Err; so a process_clocks call
\* that ends in the Play arm does not return an I/O error.
C13_ReadFailureAbsorbed ==
    /\ (~tzx.tape_ended /\ EndOfStream(tzx) /\ next_block(tzx).r # "Panic")
           => Absorbed(next_block(tzx))
    /\ (last_op = "process_clocks" /\ last_arms # <<>> /\ LastArm.arm = "Play")
           => result # "IoError"

\* C12: when the block dispatch (process_current_block, run from state
\* Process) needs a payload byte and next_block_byte returns None (a data
\* block of size 0, a PauseOrSilence block, which has no payload), the
\* process_clocks call returns InvalidTzxFile to its caller.
C12_MissingByteIsInvalidTzxFile ==
    (/\ last_op = "process_clocks"
     /\ tzx.state = StProcess
     /\ process_current_block(tzx).r = "InvalidTzxFile")
        => result = "InvalidTzxFile"

Rewound(t) ==
    /\ t.pos = 0
    /\ ~t.tape_ended
    /\ ~current_bit(t)
    /\ t.block_bytes_read = 0
    /\ t.buffer_offset = 0
    /\ t.current_block_size = None

\* C14: after rewind() from any reachable state the byte source is at
\* position 0, tape_ended is false, current_bit() is false, block_bytes_read
\* and buffer_offset are 0 and current_block_size is None.
C14_RewindResets ==
    /\ Rewound(rewind(tzx))
    /\ last_op = "rewind" => Rewound(tzx)

\* rewind() in the middle of a data block, with bytes of the block consumed,
\* the level high, and the tape not at its start
C14_RewoundInBlock ==
    /\ last_op = "rewind"
    /\ tzx.state.tag \in {"NextBit", "BitHalf"}
    /\ tzx.current_block_id = Some("TurboSpeedData")
    /\ obs.total > 0

\* C15: rewind() is idempotent: the whole engine state, position of the byte
\* source included, is the same after rewind(); rewind() as after one
\* rewind().
C15_RewindIdempotent ==
    /\ rewind(rewind(tzx)) = rewind(tzx)
    /\ last_op = "rewind" => rewind(tzx) = tzx

\* rewind() called twice in a row after the tape was played into a block
C15_RewoundTwice ==
    /\ last_op = "rewind"
    /\ env.again
    /\ tzx.current_block_id # None
    /\ tzx.state # StInit

\* delay, level, position of the byte source and buffer bookkeeping agree
SameSignalAndSource(a, b) ==
    /\ a.delay = b.delay
    /\ current_bit(a) = current_bit(b)
    /\ a.pos = b.pos
    /\ a.buffer = b.buffer
    /\ a.buffer_offset = b.buffer_offset
    /\ a.block_bytes_read = b.block_bytes_read
    /\ a.current_block_size = b.current_block_size

\* C16: stop() stores the state in prev_state and sets state to Stop; play()
\* in state Stop sets state to prev_state, or to Play when prev_state is
\* Stop; play() in any other state changes nothing; neither of them changes
\* delay, current_bit, the position of the byte source or the buffer
\* bookkeeping.
C16_StopPlayFrame ==
    /\ stop(tzx).prev_state = tzx.state
    /\ stop(tzx).state = StStop
    /\ SameSignalAndSource(stop(tzx), tzx)
    /\ tzx.state = StStop =>
          play(tzx).state = (IF tzx.prev_state = StStop THEN StPlay
                                                        ELSE tzx.prev_state)
    /\ tzx.state # StStop => play(tzx) = tzx
    /\ SameSignalAndSource(play(tzx), tzx)
    /\ last_op = "stop" => tzx.state = StStop
    /\ (last_op = "play" /\ env.again) => play(tzx) = tzx

\* play() has resumed a pilot tone that stop() interrupted, with the edge
\* still scheduled
C16_ResumedInPilot ==
    /\ last_op = "play"
    /\ tzx.state.tag = "Pilot"
    /\ tzx.prev_state = tzx.state
    /\ tzx.delay > 0

\* the payload of the block the last direct next_block call decoded: where
\* it starts in the stream and how long it is
PayloadStart == env.id_pos + 1 + FieldLen(tape[env.id_pos + 1])

PayloadSize == PayloadLen([pos |-> env.id_pos], tape[env.id_pos + 1])

\* the IDs of the blocks with a payload that next_block_byte streams
PayloadIds == {16, 17, 19, 20, 21}

\* C17: after next_block has decoded a block with a payload of n bytes, for
\* every n (more than a buffer of 128 bytes and exact multiples of it
\* included), successive next_block_byte calls return the payload bytes 0
\* to n - 1 in stream order, each once, then None on every later call; by
\* then exactly n payload bytes were taken from the byte source, which is
\* at the ID byte of the next block.
C17_PayloadInOrder ==
    (last_op = "next_block_byte" /\ tape[env.id_pos + 1] \in PayloadIds) =>
        /\ result \in {"Some", "None"}
        /\ result = "Some" =>
              /\ env.got <= PayloadSize
              /\ env.nones = 0
              /\ env.byte = tape[PayloadStart + env.got]
        /\ result = "None" =>
              /\ env.got = PayloadSize
              /\ tzx.pos = PayloadStart + PayloadSize

\* two full buffers were delivered and None was answered twice
C17_TwoBuffersDrained ==
    /\ last_op = "next_block_byte"
    /\ result = "None"
    /\ env.nones = MaxNones
    /\ env.got = 2 * BUFFER_SIZE
    /\ env.byte = Payload(2 * BUFFER_SIZE)[2 * BUFFER_SIZE]

\* C18 as stated: whenever process_clocks returns, delay >= 0, for every n
\* and every reachable state, calls included whose n exceeds the remaining
\* delay by more than the width of the next pulse.
C18_DelayNotNegative ==
    (last_op = "process_clocks" /\ result \notin Dead) => tzx.delay >= 0

\* the least delay a call with n clocks can leave
LeastDelay(t, n) == IF t.delay > 0 THEN t.delay - n ELSE t.delay

DelayAtLeast(ret, least) == ret.r \notin Dead => ret.t.delay >= least

\* C18 amended: a call of process_clocks(n) that returns leaves delay at
\* least at (delay before) - n when the delay before was positive and at
\* least at the delay before otherwise; so delay >= 0 on return when it was
\* >= 0 before and n did not exceed a positive delay.
C18_DelayBoundedBelow ==
    \A n \in ClockInputs(tzx) \cup AnyClocks :
        /\ DelayAtLeast(process_clocks(tzx, n), LeastDelay(tzx, n))
        /\ (tzx.delay >= 0 /\ (tzx.delay = 0 \/ n <= tzx.delay))
              => DelayAtLeast(process_clocks(tzx, n), 0)

\* a late call has returned after the edge of a pilot pulse with a negative
\* delay
C18_NegativeAfterLateCall ==
    /\ Returned_Ok
    /\ last_arms # <<>>
    /\ LastArm.arm = "Pilot"
    /\ LastArm.add > 0
    /\ tzx.delay < 0

\* C19: once tape_ended is true it stays true, and no later call of
\* process_clocks (or of next_block and next_block_byte in it) reads from or
\* seeks the byte source, until rewind() is called: the position of the
\* byte source and the buffer stay as they are.
C19_EndedTapeNotRead ==
    [][(tzx.tape_ended /\ last_op' # "rewind") =>
          /\ tzx'.tape_ended
          /\ tzx'.pos = tzx.pos
          /\ tzx'.buffer = tzx.buffer]_vars

\* the blocks without a payload, by the ID next_block stores for them
\* ("Unknown" is a block that was skipped)
PayloadLessIds ==
    {"PureTone", "PauseOrSilence", "GroupStart", "GroupEnd", "LoopEnd", "Unknown"}

\* a None of next_block_byte for an exhausted payload clears the size
ExhaustionClearsSize(t, nbb) ==
    (~t.tape_ended /\ t.current_block_size # None /\ nbb.r = "None")
        => nbb.t.current_block_size = None

\* C20: current_block_size is Some(n) if and only if a payload is being
\* consumed: it becomes None once next_block_byte has delivered the last
\* payload byte and reports exhaustion, and it is not Some while a block
\* without payload (PureTone, PauseOrSilence, LoopEnd, a group, a skipped
\* block) is the current block.
C20_SizeOnlyWhileStreaming ==
    result \notin Dead =>
        /\ ExhaustionClearsSize(tzx, next_block_byte(tzx))
        /\ (tzx.current_block_id # None
              /\ tzx.current_block_id.v \in PayloadLessIds)
              => tzx.current_block_size = None

\* C21: in every state reachable through the public operations (from_asset,
\* process_clocks, play, stop, rewind) buffer_offset is a multiple of
\* BUFFER_SIZE.
C21_BufferOffsetAligned ==
    result \notin Dead => tzx.buffer_offset % BUFFER_SIZE = 0

\* a block is active: the block the last next_block call decoded has a
\* payload, and next_block_byte has not delivered all of it
BlockActive ==
    /\ \/ last_op = "next_block" /\ result = "true"
       \/ last_op = "next_block_byte" /\ result = "Some"
    /\ tape[env.id_pos + 1] \in PayloadIds
    /\ env.got < PayloadSize

\* C22 as stated: whenever a block is active, between public calls
\* block_bytes_read - buffer_offset is at least 0 and strictly less than
\* BUFFER_SIZE.
C22_ReadPosInsideBuffer ==
    BlockActive =>
        /\ tzx.block_bytes_read - tzx.buffer_offset >= 0
        /\ tzx.block_bytes_read - tzx.buffer_offset < BUFFER_SIZE

\* C22 amended: whenever a block is active, between public calls
\* block_bytes_read - buffer_offset is at least 0 and at most BUFFER_SIZE;
\* it is BUFFER_SIZE exactly when the last byte of the buffer was delivered
\* and the refill is left to the next next_block_byte call.
C22_ReadPosUpToBufferEnd ==
    BlockActive =>
        /\ tzx.block_bytes_read - tzx.buffer_offset >= 0
        /\ tzx.block_bytes_read - tzx.buffer_offset <= BUFFER_SIZE
        /\ tzx.block_bytes_read - tzx.buffer_offset = BUFFER_SIZE
              <=> (env.got > 0 /\ env.got % BUFFER_SIZE = 0)

\* the whole first buffer of a longer payload was delivered, the refill has
\* not happened yet
C22_AtBufferEnd ==
    /\ BlockActive
    /\ env.got = BUFFER_SIZE
    /\ tzx.block_bytes_read - tzx.buffer_offset = BUFFER_SIZE

\* the IDs next_block has an arm for
RecognisedIds ==
    {16, 17, 18, 19, 20, 21, 22, 23, 24, 25, 32, 33, 34, 36, 37, 40, 42, 43,
     48, 50, 52, 53, 64}

\* the IDs of the blocks next_block ignores or only records: the deprecated
\* ones, LoopStart, and every ID it does not recognise
IgnoredIds == {36, 52, 53, 64} \cup ((0..255) \ RecognisedIds)

\* the Process step has put the state back to Play without an edge
BackToPlay(t, a) ==
    /\ a.r = "Ok"
    /\ a.t.state = StPlay
    /\ current_bit(a.t) = current_bit(t)
    /\ a.t.block_bytes_read = 0

\* the Play arm on an ignored block, then the Process arm
IgnoredBlockStep(t, a) == a.r = "Ok" /\ BackToPlay(t, arm_process(a.t))

\* C23: when next_block reads a block it must ignore or merely record (a
\* deprecated ID 0x34, 0x35, 0x40, an unrecognised ID, LoopStart 0x24), the
\* pulse machine emits no edge and consumes no payload for it: the Process
\* step that follows leaves current_bit unchanged and puts the state back
\* to Play, whichever block was decoded before.
C23_IgnoredBlockSkipped ==
    (/\ result \notin Dead
     /\ tzx.state = StPlay
     /\ ~StopCondition(tzx)
     /\ IdByte(tzx) \in IgnoredIds)
        => IgnoredBlockStep(tzx, arm_play(tzx))

\* the Silence arm has toggled the level once, added v ms and gone to Play
SilencePlayed(b, c, v) ==
    /\ c.r = "Ok"
    /\ current_bit(c.t) # current_bit(b.t)
    /\ c.t.delay = b.t.delay + v * MS_TSTATES
    /\ c.t.state = StPlay

\* the dispatch has read v back, added one ms and entered Silence{v}
SilenceEntered(a, b, v) ==
    /\ b.r = "Ok"
    /\ b.brk
    /\ b.t.state = StSilence(v)
    /\ b.t.delay = a.t.delay + MS_TSTATES
    /\ current_bit(b.t) = current_bit(a.t)
    /\ SilencePlayed(b, arm_silence(b.t), v)

\* the Play arm on the PauseOrSilence block, then the Process arm
PauseBlockStep(a, v) == a.r = "Ok" /\ SilenceEntered(a, arm_process(a.t), v)

\* C24: for a PauseOrSilence block (0x20) with value v # 0 at any position
\* of the tape, the first block after the header included, the dispatch
\* reads v back from the buffer, adds 3500 to delay and enters Silence{v};
\* Silence then toggles current_bit once, adds v * 3500 to delay and moves
\* to Play.
C24_PauseBlockPlayed ==
    (/\ result \notin Dead
     /\ tzx.state = StPlay
     /\ ~StopCondition(tzx)
     /\ IdByte(tzx) = 32)
        => PauseBlockStep(arm_play(tzx), U16At(tzx.pos + 1))

\* the call has changed the engine or has returned an error
Progress(t, ret) == ret.r # "Ok" \/ ret.t # t

\* C25: for every finite tape with a readable header, if the host keeps
\* calling process_clocks(n) with n >= 1 and never calls stop or rewind, the
\* engine eventually reaches state Stop or returns an error; it never stays
\* forever in another state without reading further blocks. So no state
\* other than Stop that a call returned Ok in is left unchanged by every
\* further call.
C25_NoDeadEnd ==
    (last_op = "process_clocks" /\ result = "Ok" /\ tzx.state # StStop)
        => \E n \in ClockInputs(tzx) \cup (AnyClocks \ {0}) :
              Progress(tzx, process_clocks(tzx, n))

U32At(p) == U24At(p) + 16777216 * tape[p + 4]

\* the bytes of the block at p after its ID byte and its fixed fields: the
\* payload, or what the block tells to skip
BodyLen(p, id) ==
    CASE id \in {22, 23, 24, 25, 43} -> U32At(p + 1)
      [] id \in {40, 50} -> U16At(p + 1)
      [] OTHER -> PayloadLen([pos |-> p], id)

\* the offsets of the first bytes of the blocks of the tape, from offset p
RECURSIVE BlockStartsFrom(_)
BlockStartsFrom(p) ==
    IF p >= Len(tape) THEN {}
    ELSE IF p + 1 + FieldLen(tape[p + 1]) > Len(tape) THEN {p}
    ELSE {p} \cup BlockStartsFrom(p + 1 + FieldLen(tape[p + 1])
                                     + BodyLen(p, tape[p + 1]))

BlockStarts == BlockStartsFrom(HEADER_SIZE)

\* C26: under any sequence of process_clocks, stop and play calls on a tape
\* made of the blocks of the table of block IDs, every byte next_block takes
\* as a block ID is the first byte of a block of the stream (offset 10, the
\* byte after the header and payload of the block before, the recorded loop
\* start); a header or payload byte is never taken as a block ID.
C26_IdAtBlockStart ==
    /\ (tzx.state = StPlay /\ ~tzx.tape_ended /\ BytesLeft(tzx) > 0)
          => tzx.pos \in BlockStarts
    /\ (obs.id # "None" /\ obs.block_pos < Len(tape))
          => obs.block_pos \in BlockStarts

\* the states in the middle of a block
MidBlockTags ==
    {"Pilot", "PureTone", "PulseSequence", "Sync", "NextByte", "NextBit",
     "NextDirectRecordingBit", "BitHalf", "Pause", "Silence"}

\* the last process_clocks call went into Stop by itself
StoppedByItself ==
    /\ last_op = "process_clocks"
    /\ result = "Ok"
    /\ last_arms # <<>>
    /\ tzx.state = StStop

\* C27: when the pulse machine has entered Stop on its own (next_block
\* returned false in state Play), a later play() resumes in state Play, so
\* that the next block is read; it never resumes a state in the middle of a
\* block (Pilot, NextBit, BitHalf, ...) that an earlier stop() saved in
\* prev_state.
C27_ResumeAtNextBlock ==
    StoppedByItself => play(tzx).state.tag \notin MidBlockTags

\* a GroupStart or TextDescription block lies at the read position, with its
\* length byte and all of its text, and the text is ASCII (so UTF-8)
TextBlockAhead(t) ==
    /\ t.state = StPlay
    /\ ~t.tape_ended
    /\ BytesLeft(t) >= 2
    /\ IdByte(t) \in {33, 48}
    /\ BytesLeft(t) >= 2 + tape[t.pos + 2]
    /\ \A i \in 1..tape[t.pos + 2] : tape[t.pos + 2 + i] < 128

\* next_block on t ends without a panic
NoPanic(nb) == nb.r # "Panic"

\* C28: next_block reads a GroupStart (0x21) or TextDescription (0x30) block
\* whose length byte is any value 0..255 without an out-of-range access to
\* the 128-byte buffer: the call returns, it does not panic.
C28_TextFitsBuffer ==
    TextBlockAhead(tzx) => NoPanic(next_block(tzx))

\* C29: whenever the engine is in state Pilot, PureTone or PulseSequence the
\* pulses_left counter of the state is >= 1, and whenever it is in state
\* BitHalf or NextDirectRecordingBit the bits_to_process_in_byte counter is
\* >= 1, so the decrement the arm of that state starts with does not go
\* below zero.
C29_CountersPositive ==
    /\ tzx.state.tag \in {"Pilot", "PureTone", "PulseSequence"}
          => tzx.state.pulses_left >= 1
    /\ tzx.state.tag \in {"BitHalf", "NextDirectRecordingBit"}
          => tzx.bits_to_process_in_byte >= 1

====
